---- MODULE Spec2Model ----
(***************************************************************************)
(* Model of src/src/App.tsx: the artworks table with cross-page row        *)
(* selection.  The component's React state is the model's state; every     *)
(* event handler is one action, and an async handler is split at each      *)
(* `await fetchData(...)`: the part before the await is one action, the    *)
(* continuation after the response (or the rejection) is another.  A       *)
(* continuation reads the state variables of the render in which the       *)
(* handler was invoked (its closure), which the in-flight records keep.    *)
(***************************************************************************)
EXTENDS Integers, Sequences, FiniteSets, TLC

VARIABLES
    artworks,       \* useState<Artwork[]>: ids of the displayed records, in order
    loading,        \* useState<boolean>
    currentPage,    \* useState<number>
    pageSize,       \* useState<number>
    totalRecords,   \* useState<number>
    totalPages,     \* useState<number>
    selectedIds,    \* useState<Set<number>>
    isAllSelected,  \* useState<boolean>
    showDropdown,   \* useState<boolean>
    inputValue,     \* useState<string>, as a sequence of characters
    toast,          \* the last notification shown through toastRef
    mounted,        \* whether the mount effect has run
    loads,          \* loadPage calls awaiting their fetch, in request order
    bulks,          \* selectRows calls awaiting a fetch, in request order
    remoteTotal,    \* number of records the remote collection holds
    nEvents,        \* number of user events so far
    requested,      \* the loadPage call made last, and how its fetch has ended
    event           \* the handler step taken last, with the selection before it

vars == <<artworks, loading, currentPage, pageSize, totalRecords, totalPages,
          selectedIds, isAllSelected, showDropdown, inputValue, toast, mounted,
          loads, bulks, remoteTotal, nEvents, requested, event>>

pageState == <<artworks, currentPage, pageSize, totalRecords, totalPages>>

----------------------------------------------------------------------------
(* Bounds and input samples *)

MaxEvents == 4
MaxInFlight == 2
MaxPage == 1

RemoteTotals == {0, 7, 128}
ClickRows == {1, 2}
InputTexts == { <<"a">>, <<"0">>, <<"-", "3">>, <<"3">>, <<"6", "x">>,
                <<"5", "0">>, <<"7", "5">>, <<"2", "0", "0">> }

(* Program constants *)

itemsPerPage == 50
DefaultRows == 10
RowsPerPageOptions == {5, 10, 20}

\* the page sizes the model's user picks
RowsSamples == RowsPerPageOptions \ {20}

----------------------------------------------------------------------------
(* Helpers *)

Min(a, b) == IF a < b THEN a ELSE b

Max(a, b) == IF a > b THEN a ELSE b

CeilDiv(a, b) == (a + b - 1) \div b

RemoveAt(s, i) == [j \in 1..(Len(s) - 1) |-> IF j < i THEN s[j] ELSE s[j + 1]]

\* pageData.map(item => item.id) as a set
Ids(pageData) == {pageData[i] : i \in DOMAIN pageData}

\* pageIds.every(id => ids.has(id))
Every(pageData, ids) == \A i \in DOMAIN pageData : pageData[i] \in ids

----------------------------------------------------------------------------
(* parseInt(inputValue): optional sign, then the longest run of digits;     *)
(* NaN when there is no digit.                                              *)

Digits == <<"0", "1", "2", "3", "4", "5", "6", "7", "8", "9">>

IsDigit(c) == \E d \in DOMAIN Digits : Digits[d] = c

DigitVal(c) == (CHOOSE d \in DOMAIN Digits : Digits[d] = c) - 1

RECURSIVE DigitRun(_, _, _)
DigitRun(s, i, acc) ==
    IF i > Len(s) \/ ~IsDigit(s[i]) THEN acc
    ELSE DigitRun(s, i + 1, acc * 10 + DigitVal(s[i]))

parseInt(s) ==
    LET signed == Len(s) > 0 /\ s[1] \in {"-", "+"}
        first  == IF signed THEN 2 ELSE 1
        mag    == DigitRun(s, first, 0)
    IN  IF first > Len(s) \/ ~IsDigit(s[first])
        THEN [nan |-> TRUE, val |-> 0]
        ELSE [nan |-> FALSE, val |-> IF signed /\ s[1] = "-" THEN 0 - mag ELSE mag]

----------------------------------------------------------------------------
(* The remote collection and the read against it *)

\* identifier of the record at 0-based position i of the collection
RecordId(i) == 100 + i

\* the JSON body of GET ...?page=p&limit=limit (p is 1-indexed)
RemoteGet(p, limit) ==
    LET offset == (Max(p, 1) - 1) * limit
        count  == Max(0, Min(limit, remoteTotal - offset))
    IN  [data        |-> [i \in 1..count |-> RecordId(offset + i - 1)],
         total       |-> remoteTotal,
         total_pages |-> CeilDiv(remoteTotal, limit)]

\* fetchData passing its 0-indexed page as the 1-indexed page parameter
fetchDataZeroIndexed(page, rows) == RemoteGet(page, rows)

fetchData(page, rows) == RemoteGet(page + 1, rows)

----------------------------------------------------------------------------
(* Bookkeeping of the step taken last *)

NoEvent == [kind |-> "none", a |-> 0, b |-> 0, sel |-> {}, picked |-> <<>>,
            twice |-> FALSE]

\* twice: this step and the one before it are the same kind of step on the same a
Ev(kind, a, b, picked) ==
    [kind |-> kind, a |-> a, b |-> b, sel |-> selectedIds, picked |-> picked,
     twice |-> (event.kind = kind /\ event.a = a)]

Notice(severity, summary) == [severity |-> severity, summary |-> summary]

NoToast == Notice("none", "")

\* the call made last is the last of loads for as long as it is pending
Request(page, rows, status) == [page |-> page, rows |-> rows, status |-> status]

Settled(i, status) ==
    IF requested.status = "pending" /\ i = Len(loads)
    THEN [requested EXCEPT !.status = status]
    ELSE requested

UserEvent == mounted /\ nEvents < MaxEvents /\ nEvents' = nEvents + 1

InFlight == Len(loads) + Len(bulks)

----------------------------------------------------------------------------
Init ==
    /\ artworks = <<>>
    /\ loading = FALSE
    /\ currentPage = 0
    /\ pageSize = DefaultRows
    /\ totalRecords = 0
    /\ totalPages = 0
    /\ selectedIds = {}
    /\ isAllSelected = FALSE
    /\ showDropdown = FALSE
    /\ inputValue = <<>>
    /\ toast = NoToast
    /\ mounted = FALSE
    /\ loads = <<>>
    /\ bulks = <<>>
    /\ remoteTotal \in RemoteTotals
    /\ nEvents = 0
    /\ requested = Request(0, DefaultRows, "none")
    /\ event = NoEvent

----------------------------------------------------------------------------
(* loadPage *)

updateSelectAllStatus(pageData, ids) == Len(pageData) > 0 /\ Every(pageData, ids)

\* loadPage up to its await: setLoading(true), fetch issued
loadPage(page, rows) ==
    /\ loading' = TRUE
    /\ loads' = Append(loads, [page |-> page, rows |-> rows, selectedIds |-> selectedIds])
    /\ requested' = Request(page, rows, "pending")
    /\ UNCHANGED <<pageState, selectedIds, isAllSelected, showDropdown, inputValue,
                   toast, bulks, remoteTotal>>

\* useEffect(() => loadPage(0, 10), [])
Mount ==
    /\ ~mounted
    /\ mounted' = TRUE
    /\ loadPage(0, DefaultRows)
    /\ event' = Ev("loadStart", 0, DefaultRows, <<>>)
    /\ UNCHANGED nEvents

\* the paginator offers page 0 and the pages the held total gives
onPageChange(page, rows) ==
    /\ UserEvent
    /\ InFlight < MaxInFlight
    /\ page = 0 \/ page < CeilDiv(totalRecords, rows)
    /\ loadPage(page, rows)
    /\ event' = Ev("loadStart", page, rows, <<>>)
    /\ UNCHANGED mounted

\* a continuation of loadPage that also resets the selection
LoadPageOkResetting(i) ==
    LET op   == loads[i]
        data == fetchData(op.page, op.rows)
    IN  /\ artworks' = data.data
        /\ currentPage' = op.page
        /\ pageSize' = op.rows
        /\ totalRecords' = data.total
        /\ totalPages' = data.total_pages
        /\ selectedIds' = {}
        /\ isAllSelected' = FALSE
        /\ loading' = FALSE
        /\ loads' = RemoveAt(loads, i)
        /\ requested' = Settled(i, "ok")
        /\ event' = Ev("loadDone", op.page, op.rows, <<>>)
        /\ UNCHANGED <<showDropdown, inputValue, toast, mounted,
                       bulks, remoteTotal, nEvents>>

\* a continuation of loadPage that stores the 1-indexed page number
LoadPageOkOneIndexed(i) ==
    LET op   == loads[i]
        data == fetchData(op.page, op.rows)
    IN  /\ artworks' = data.data
        /\ currentPage' = op.page + 1
        /\ pageSize' = op.rows
        /\ totalRecords' = data.total
        /\ totalPages' = data.total_pages
        /\ isAllSelected' = updateSelectAllStatus(data.data, op.selectedIds)
        /\ loading' = FALSE
        /\ loads' = RemoveAt(loads, i)
        /\ requested' = Settled(i, "ok")
        /\ event' = Ev("loadDone", op.page, op.rows, <<>>)
        /\ UNCHANGED <<selectedIds, showDropdown, inputValue, toast, mounted,
                       bulks, remoteTotal, nEvents>>

\* the continuation of loadPage after a successful fetch
LoadPageOk(i) ==
    LET op   == loads[i]
        data == fetchData(op.page, op.rows)
    IN  /\ artworks' = data.data
        /\ currentPage' = op.page
        /\ pageSize' = op.rows
        /\ totalRecords' = data.total
        /\ totalPages' = data.total_pages
        /\ isAllSelected' = updateSelectAllStatus(data.data, op.selectedIds)
        /\ loading' = FALSE
        /\ loads' = RemoveAt(loads, i)
        /\ requested' = Settled(i, "ok")
        /\ event' = Ev("loadDone", op.page, op.rows, <<>>)
        /\ UNCHANGED <<selectedIds, showDropdown, inputValue, toast, mounted,
                       bulks, remoteTotal, nEvents>>

\* a loadPage that had set the page index and size before awaiting the fetch
LoadPageFailMovingPage(i) ==
    LET op == loads[i]
    IN  /\ toast' = Notice("error", "Error")
        /\ loading' = FALSE
        /\ currentPage' = op.page
        /\ pageSize' = op.rows
        /\ loads' = RemoveAt(loads, i)
        /\ requested' = Settled(i, "failed")
        /\ event' = Ev("loadFail", op.page, op.rows, <<>>)
        /\ UNCHANGED <<artworks, totalRecords, totalPages, selectedIds, isAllSelected,
                       showDropdown, inputValue, mounted, bulks, remoteTotal, nEvents>>

\* the catch block of loadPage
LoadPageFail(i) ==
    LET op == loads[i]
    IN  /\ toast' = Notice("error", "Error")
        /\ loading' = FALSE
        /\ loads' = RemoveAt(loads, i)
        /\ requested' = Settled(i, "failed")
        /\ event' = Ev("loadFail", op.page, op.rows, <<>>)
        /\ UNCHANGED <<pageState, selectedIds, isAllSelected, showDropdown,
                       inputValue, mounted, bulks, remoteTotal, nEvents>>

----------------------------------------------------------------------------
(* Row and header checkboxes *)

\* a handleCheckbox that adds the identifier whatever `checked` is
handleCheckboxAddOnly(id, checked) ==
    LET updatedIds == selectedIds \cup {id}
    IN  /\ UserEvent
        /\ id \in Ids(artworks)
        /\ checked = (id \notin selectedIds)
        /\ selectedIds' = updatedIds
        /\ isAllSelected' = Every(artworks, updatedIds)
        /\ event' = Ev("toggle", id, 0, <<>>)
        /\ UNCHANGED <<pageState, loading, showDropdown, inputValue, toast,
                       mounted, loads, bulks, remoteTotal, requested>>

\* the row checkbox shows selectedIds.has(id) and reports the opposite
handleCheckbox(id, checked) ==
    LET updatedIds == IF checked THEN selectedIds \cup {id} ELSE selectedIds \ {id}
    IN  /\ UserEvent
        /\ id \in Ids(artworks)
        /\ checked = (id \notin selectedIds)
        /\ selectedIds' = updatedIds
        /\ isAllSelected' = Every(artworks, updatedIds)
        /\ event' = Ev("toggle", id, 0, <<>>)
        /\ UNCHANGED <<pageState, loading, showDropdown, inputValue, toast,
                       mounted, loads, bulks, remoteTotal, requested>>

\* a handleSelectAll whose uncheck clears the whole selection
handleSelectAllClearing(checked) ==
    LET pageIds    == Ids(artworks)
        updatedIds == IF checked THEN selectedIds \cup pageIds ELSE {}
    IN  /\ UserEvent
        /\ checked = ~isAllSelected
        /\ selectedIds' = updatedIds
        /\ isAllSelected' = checked
        /\ event' = Ev("selectAll", IF checked THEN 1 ELSE 0, 0, <<>>)
        /\ UNCHANGED <<pageState, loading, showDropdown, inputValue, toast,
                       mounted, loads, bulks, remoteTotal, requested>>

\* the header checkbox shows isAllSelected and reports the opposite
handleSelectAll(checked) ==
    LET pageIds    == Ids(artworks)
        updatedIds == IF checked THEN selectedIds \cup pageIds
                                 ELSE selectedIds \ pageIds
    IN  /\ UserEvent
        /\ checked = ~isAllSelected
        /\ selectedIds' = updatedIds
        /\ isAllSelected' = checked
        /\ event' = Ev("selectAll", IF checked THEN 1 ELSE 0, 0, <<>>)
        /\ UNCHANGED <<pageState, loading, showDropdown, inputValue, toast,
                       mounted, loads, bulks, remoteTotal, requested>>

----------------------------------------------------------------------------
(* The popover: chevron, text input, Select and Submit buttons *)

\* onClick of the chevron: setShowDropdown(!showDropdown)
ToggleDropdown ==
    /\ UserEvent
    /\ showDropdown' = ~showDropdown
    /\ event' = Ev("dropdown", 0, 0, <<>>)
    /\ UNCHANGED <<pageState, loading, selectedIds, isAllSelected, inputValue,
                   toast, mounted, loads, bulks, remoteTotal, requested>>

\* onChange of the InputText: setInputValue(e.target.value)
SetInputValue(text) ==
    /\ UserEvent
    /\ showDropdown
    /\ inputValue' = text
    /\ event' = Ev("input", 0, 0, <<>>)
    /\ UNCHANGED <<pageState, loading, selectedIds, isAllSelected, showDropdown,
                   toast, mounted, loads, bulks, remoteTotal, requested>>

\* !num || isNaN(num) || num <= 0
InvalidInput(num) == num.nan \/ num.val = 0 \/ num.val <= 0

\* a selectRows without the check against the total
TooManyRowsUnchecked(num, total) == FALSE

\* num > totalRecords
TooManyRows(num, total) == num.val > total

\* a loop round that takes the whole fetched page
itemsToTakeWholePage(num, itemsSelected, length) == length

\* Math.min(num - itemsSelected, data.data.length)
itemsToTake(num, itemsSelected, length) == Min(num - itemsSelected, length)

\* a loop round that forgets page++
NextPageStuck(page) == page

\* page++ at the end of a loop round
NextPage(page) == page + 1

\* the early returns of selectRows: a warning and nothing else
SelectRowsRejected ==
    LET num == parseInt(inputValue)
    IN  /\ UserEvent
        /\ showDropdown
        /\ InvalidInput(num) \/ TooManyRows(num, totalRecords)
        /\ toast' = IF InvalidInput(num) THEN Notice("warn", "Invalid input")
                                         ELSE Notice("warn", "Too many rows")
        /\ event' = Ev("selectRejected", 0, 0, <<>>)
        /\ UNCHANGED <<pageState, loading, selectedIds, isAllSelected, showDropdown,
                       inputValue, mounted, loads, bulks, remoteTotal, requested>>

\* selectRows up to its first await: setLoading(true), snapshot, first fetch issued
SelectRowsStart ==
    LET num == parseInt(inputValue)
    IN  /\ UserEvent
        /\ showDropdown
        /\ InFlight < MaxInFlight
        /\ ~InvalidInput(num)
        /\ ~TooManyRows(num, totalRecords)
        /\ loading' = TRUE
        /\ bulks' = Append(bulks, [num |-> num.val, selectedIds |-> selectedIds,
                                   artworks |-> artworks, updatedIds |-> selectedIds,
                                   itemsSelected |-> 0, page |-> 0, picked |-> <<>>,
                                   fetched |-> <<>>])
        /\ event' = Ev("selectStart", num.val, 0, <<>>)
        /\ UNCHANGED <<pageState, selectedIds, isAllSelected, showDropdown,
                       inputValue, toast, mounted, loads, remoteTotal, requested>>

\* one round of the while loop after a successful fetch: take from the page
BulkTake(op) ==
    LET data == fetchData(op.page, itemsPerPage).data
        take == itemsToTake(op.num, op.itemsSelected, Len(data))
    IN  [op EXCEPT !.updatedIds = @ \cup {data[i] : i \in 1..take},
                   !.itemsSelected = @ + take,
                   !.picked = @ \o SubSeq(data, 1, take),
                   !.fetched = Append(@, op.page),
                   !.page = NextPage(@)]

\* a loop whose condition is itemsSelected <= num
LoopEndsLate(op, length) == length < itemsPerPage \/ ~(op.itemsSelected <= op.num)

\* whether the loop ends after the round that fetched `length` records
LoopEnds(op, length) == length < itemsPerPage \/ ~(op.itemsSelected < op.num)

\* a commit that merges the collected identifiers into the current selection
CommitOntoCurrent(op, current) == current \cup Ids(op.picked)

\* what selectRows commits after the loop: setSelectedIds(updatedIds)
Commit(op, current) == op.updatedIds

\* a fetch of the loop succeeds and the loop goes on: next fetch issued
SelectRowsMore(i) ==
    LET op     == bulks[i]
        length == Len(fetchData(op.page, itemsPerPage).data)
        after  == BulkTake(op)
    IN  /\ ~LoopEnds(after, length)
        /\ bulks' = [bulks EXCEPT ![i] = after]
        /\ event' = Ev("selectMore", op.num, after.page, after.picked)
        /\ UNCHANGED <<pageState, loading, selectedIds, isAllSelected, showDropdown,
                       inputValue, toast, mounted, loads, remoteTotal, requested, nEvents>>

\* a fetch of the loop succeeds and the loop ends: the rest of selectRows
SelectRowsDone(i) ==
    LET op     == bulks[i]
        length == Len(fetchData(op.page, itemsPerPage).data)
        after  == BulkTake(op)
    IN  /\ LoopEnds(after, length)
        /\ selectedIds' = Commit(after, selectedIds)
        /\ isAllSelected' = Every(op.artworks, Commit(after, selectedIds))
        /\ toast' = Notice("success", "Success")
        /\ loading' = FALSE
        /\ showDropdown' = FALSE
        /\ inputValue' = <<>>
        /\ bulks' = RemoveAt(bulks, i)
        /\ event' = Ev("selectDone", op.num, op.page + 1, after.picked)
        /\ UNCHANGED <<pageState, mounted, loads, remoteTotal, requested, nEvents>>

\* a catch block that commits what the loop had collected so far
SelectRowsFailMerging(i) ==
    LET op == bulks[i]
    IN  /\ toast' = Notice("error", "Error")
        /\ loading' = FALSE
        /\ showDropdown' = FALSE
        /\ inputValue' = <<>>
        /\ selectedIds' = op.updatedIds
        /\ bulks' = RemoveAt(bulks, i)
        /\ event' = Ev("selectFail", op.num, op.page, op.picked)
        /\ UNCHANGED <<pageState, isAllSelected, mounted, loads,
                       remoteTotal, requested, nEvents>>

\* a selectRows whose setLoading(false) is inside the try block
SelectRowsFailStuck(i) ==
    LET op == bulks[i]
    IN  /\ toast' = Notice("error", "Error")
        /\ showDropdown' = FALSE
        /\ inputValue' = <<>>
        /\ bulks' = RemoveAt(bulks, i)
        /\ event' = Ev("selectFail", op.num, op.page, op.picked)
        /\ UNCHANGED <<pageState, loading, selectedIds, isAllSelected, mounted,
                       loads, remoteTotal, requested, nEvents>>

\* a fetch of the loop fails: the catch block and the rest of selectRows
SelectRowsFail(i) ==
    LET op == bulks[i]
    IN  /\ toast' = Notice("error", "Error")
        /\ loading' = FALSE
        /\ showDropdown' = FALSE
        /\ inputValue' = <<>>
        /\ bulks' = RemoveAt(bulks, i)
        /\ event' = Ev("selectFail", op.num, op.page, op.picked)
        /\ UNCHANGED <<pageState, selectedIds, isAllSelected, mounted, loads,
                       remoteTotal, requested, nEvents>>

\* a submitSelection without the check for an empty selection
submitSelectionUnchecked ==
    /\ UserEvent
    /\ showDropdown
    /\ toast' = Notice("success", "Submitted")
    /\ showDropdown' = FALSE
    /\ inputValue' = <<>>
    /\ event' = Ev("submit", 0, 0, <<>>)
    /\ UNCHANGED <<pageState, loading, selectedIds, isAllSelected, mounted,
                   loads, bulks, remoteTotal, requested>>

submitSelection ==
    /\ UserEvent
    /\ showDropdown
    /\ IF selectedIds = {}
       THEN /\ toast' = Notice("warn", "No selection")
            /\ UNCHANGED <<showDropdown, inputValue>>
       ELSE /\ toast' = Notice("success", "Submitted")
            /\ showDropdown' = FALSE
            /\ inputValue' = <<>>
    /\ event' = Ev("submit", 0, 0, <<>>)
    /\ UNCHANGED <<pageState, loading, selectedIds, isAllSelected, mounted,
                   loads, bulks, remoteTotal, requested>>

----------------------------------------------------------------------------
Next ==
    \/ Mount
    \/ \E page \in 0..MaxPage, rows \in RowsSamples : onPageChange(page, rows)
    \/ \E i \in DOMAIN loads : LoadPageOk(i)
    \/ \E i \in DOMAIN loads : LoadPageFail(i)
    \/ \E r \in ClickRows, checked \in BOOLEAN :
          r \in DOMAIN artworks /\ handleCheckbox(artworks[r], checked)
    \/ \E checked \in BOOLEAN : handleSelectAll(checked)
    \/ ToggleDropdown
    \/ \E text \in InputTexts : SetInputValue(text)
    \/ SelectRowsRejected
    \/ SelectRowsStart
    \/ \E i \in DOMAIN bulks : SelectRowsMore(i)
    \/ \E i \in DOMAIN bulks : SelectRowsDone(i)
    \/ \E i \in DOMAIN bulks : SelectRowsFail(i)
    \/ submitSelection

\* a fetch in flight settles: the response or the rejection reaches its handler
Responses ==
    \/ \E i \in DOMAIN loads : LoadPageOk(i) \/ LoadPageFail(i)
    \/ \E i \in DOMAIN bulks : SelectRowsMore(i) \/ SelectRowsDone(i) \/ SelectRowsFail(i)

Spec == Init /\ [][Next]_vars

\* every issued fetch eventually responds
FairSpec == Spec /\ WF_vars(Responses)

----------------------------------------------------------------------------
(* Properties *)

\* the first n records of the collection, in collection order
FirstRecords(n) == [i \in 1..n |-> RecordId(i - 1)]

LoadKinds == {"loadStart", "loadDone", "loadFail"}

\* C1: isAllSelected is true iff every identifier of the displayed page is in
\* selectedIds, in every reachable state.  Stated for a non-empty displayed
\* page, on which updateSelectAllStatus, handleCheckbox, handleSelectAll and
\* selectRows agree with the claim when no two operations overlap.
C1_AllSelectedIffPageSelected ==
    artworks # <<>> => (isAllSelected <=> Every(artworks, selectedIds))

\* C2: a bulk-select of N (0 < N <= totalRecords) that completes collects
\* exactly the first N records of the collection, in collection order, N
\* distinct identifiers, all of them in the selection set afterwards, which
\* then has at least N members.
C2_BulkSelectAddsFirstN ==
    event.kind = "selectDone" =>
        /\ event.a > 0
        /\ event.picked = FirstRecords(event.a)
        /\ Cardinality(Ids(event.picked)) = event.a
        /\ Ids(event.picked) \subseteq selectedIds
        /\ Cardinality(selectedIds) >= event.a

\* a two-page bulk-select completed on top of a selection made before it
C2_Witness ==
    /\ event.kind = "selectDone"
    /\ event.a = 75
    /\ event.b = 2
    /\ event.sel # {}

\* C3 as claimed: after a fetch failure that follows at least one fetched
\* page, the selection set contains the identifiers taken from those pages.
C3_PartialMergeOnFailure ==
    (event.kind = "selectFail" /\ event.b >= 1) => Ids(event.picked) \subseteq selectedIds

\* C3 amended: a fetch failure after at least one fetched page aborts the
\* bulk-select with an error notification and leaves the selection set as it
\* was right before the failure; the identifiers taken so far are dropped.
C3_FailureLeavesSelection ==
    (event.kind = "selectFail" /\ event.b >= 1) =>
        /\ selectedIds = event.sel
        /\ toast = Notice("error", "Error")

\* a failure after one page was taken, none of whose identifiers is selected
C3_Witness ==
    /\ event.kind = "selectFail"
    /\ event.b >= 1
    /\ event.picked # <<>>
    /\ Ids(event.picked) \cap selectedIds = {}

\* C4: a bulk-select that completes replaces the selection set by the
\* snapshot it took at invocation plus the identifiers it collected: outside
\* the collected identifiers, membership is what it was at invocation, so a
\* change committed in between is lost.
C4_CompletionRestoresSnapshot ==
    [][\A i \in DOMAIN bulks :
          (event'.kind = "selectDone" /\ bulks' = RemoveAt(bulks, i)) =>
              \A id \in (selectedIds \cup selectedIds' \cup bulks[i].selectedIds)
                            \ Ids(event'.picked) :
                  id \in selectedIds' <=> id \in bulks[i].selectedIds]_vars

\* a completion after which an identifier selected right before it is gone
C4_Witness ==
    /\ event.kind = "selectDone"
    /\ event.sel \ selectedIds # {}

\* C5: a bulk-select invoked with a non-numeric, zero or negative input, or
\* one above the total held in state, emits a warning, issues no fetch and
\* leaves selection, all-selected flag, page state and loading flag alone.
C5_InvalidInputIsRejected ==
    [][LET num == parseInt(inputValue)
       IN  (/\ event'.kind \in {"selectRejected", "selectStart"}
            /\ num.nan \/ num.val = 0 \/ num.val < 0 \/ num.val > totalRecords)
           => /\ toast'.severity = "warn"
              /\ UNCHANGED <<selectedIds, isAllSelected, pageState, loading,
                             loads, bulks>>]_vars

\* a count above the loaded total was rejected
C5_Witness ==
    /\ event.kind = "selectRejected"
    /\ totalRecords > 0
    /\ ~parseInt(inputValue).nan
    /\ parseInt(inputValue).val > totalRecords
    /\ toast = Notice("warn", "Too many rows")

\* C6: toggling the checkbox of one row twice in a row returns the selection
\* set to what it was before the first of the two toggles.
C6_ToggleTwiceRestores ==
    [][(/\ event.kind = "toggle"
        /\ event'.kind = "toggle"
        /\ event'.a = event.a
        /\ event'.twice)
       => selectedIds' = event.sel]_vars

\* a row toggled twice in a row on top of another selected row
C6_Witness ==
    /\ event.kind = "toggle"
    /\ event.twice
    /\ selectedIds # {}
    /\ event.a \notin selectedIds

\* C7: after a successful load of (page, size) with page * size < total the
\* displayed list is that page of the collection and holds
\* min(size, total - page * size) records.
C7_LoadedPageLength ==
    (event.kind = "loadDone" /\ event.a * event.b < remoteTotal) =>
        /\ Len(artworks) = Min(event.b, remoteTotal - event.a * event.b)
        /\ \A i \in DOMAIN artworks : artworks[i] = RecordId(event.a * event.b + i - 1)

\* a last, partly filled page has been loaded
C7_Witness ==
    /\ event.kind = "loadDone"
    /\ event.a = 1
    /\ Len(artworks) > 0
    /\ Len(artworks) < event.b

\* C8: no step of a page load (request, success, failure) changes the
\* selection set.
C8_LoadKeepsSelection ==
    [][event'.kind \in LoadKinds => selectedIds' = selectedIds]_vars

\* a page was loaded while an identifier that is not on it stays selected
C8_Witness ==
    /\ event.kind = "loadDone"
    /\ artworks # <<>>
    /\ selectedIds # {}
    /\ selectedIds \cap Ids(artworks) = {}

\* C9: select-all with checked adds every identifier of the displayed page,
\* unchecked removes every one of them, and the membership of identifiers
\* not on the displayed page is unchanged.
C9_SelectAllTouchesPageOnly ==
    [][event'.kind = "selectAll" =>
          /\ event'.a = 1 => Ids(artworks) \subseteq selectedIds'
          /\ event'.a = 0 => Ids(artworks) \cap selectedIds' = {}
          /\ selectedIds' \ Ids(artworks) = selectedIds \ Ids(artworks)]_vars

\* the header checkbox was unchecked while identifiers of another page stay
C9_Witness ==
    /\ event.kind = "selectAll"
    /\ event.a = 0
    /\ event.sel \cap Ids(artworks) # {}
    /\ selectedIds # {}

\* C10: a failed page load shows an error notification, issues no further
\* fetch, and neither its request nor its failure changes the displayed
\* records, page index, page size, totals, all-selected flag or selection.
C10_FailedLoadChangesNothing ==
    [][/\ event'.kind \in {"loadStart", "loadFail"} =>
            UNCHANGED <<pageState, isAllSelected, selectedIds>>
       /\ event'.kind = "loadFail" =>
            /\ toast' = Notice("error", "Error")
            /\ Len(loads') = Len(loads) - 1
            /\ bulks' = bulks]_vars

\* a page change failed and the page loaded before it is still displayed
C10_Witness ==
    /\ event.kind = "loadFail"
    /\ artworks # <<>>
    /\ currentPage # event.a
    /\ toast = Notice("error", "Error")

\* C11: submitting while the selection set is empty shows the warning and
\* nothing else: no success notification, and selection, popover visibility,
\* input text and every other state variable are unchanged.
C11_EmptySubmitOnlyWarns ==
    [][(event'.kind = "submit" /\ selectedIds = {}) =>
          /\ toast' = Notice("warn", "No selection")
          /\ UNCHANGED <<selectedIds, showDropdown, inputValue, isAllSelected,
                         pageState, loading, loads, bulks>>]_vars

\* an empty selection was submitted with the popover open and text typed
C11_Witness ==
    /\ event.kind = "submit"
    /\ selectedIds = {}
    /\ showDropdown
    /\ inputValue # <<>>
    /\ toast = Notice("warn", "No selection")

\* C12 as claimed: a completed bulk-select of N leaves the selection set with
\* N more members than it had when the bulk-select was invoked.
C12_GainsExactlyN ==
    [][\A i \in DOMAIN bulks :
          (event'.kind = "selectDone" /\ bulks' = RemoveAt(bulks, i)) =>
              Cardinality(selectedIds') =
                  Cardinality(bulks[i].selectedIds) + bulks[i].num]_vars

\* C12 amended: a completed bulk-select of N leaves the selection set equal to
\* the selection held at invocation plus the first N identifiers, so its size
\* grows by N minus the number of those N that were selected at invocation.
C12_GainsTheUnselectedOfFirstN ==
    [][\A i \in DOMAIN bulks :
          (event'.kind = "selectDone" /\ bulks' = RemoveAt(bulks, i)) =>
              LET held   == bulks[i].selectedIds
                  firstN == Ids(FirstRecords(bulks[i].num))
              IN  /\ selectedIds' = held \cup firstN
                  /\ Cardinality(selectedIds') =
                        Cardinality(held) + bulks[i].num - Cardinality(held \cap firstN)]_vars

\* a bulk-select completed over a selection that held some of its first N
C12_Witness ==
    /\ event.kind = "selectDone"
    /\ event.sel \cap Ids(event.picked) # {}
    /\ Cardinality(selectedIds) < Cardinality(event.sel) + event.a

\* C13: whenever the held total is positive, the page index is below the
\* page count, and both totals are those of the collection at the displayed
\* page size, as the last applied response gave them.
C13_PageIndexInRange ==
    totalRecords > 0 =>
        /\ currentPage < totalPages
        /\ totalRecords = remoteTotal
        /\ totalPages = CeilDiv(remoteTotal, pageSize)

\* the second of two pages is displayed
C13_Witness ==
    /\ event.kind = "loadDone"
    /\ totalRecords > 0
    /\ currentPage = 1
    /\ totalPages = 2

\* number of fetches a bulk-select of n is to issue
FetchesFor(n) == CeilDiv(n, itemsPerPage)

\* C14: a bulk-select of N fetches pages 0, 1, 2, ... in increasing order,
\* each once, takes min(remaining, page length) from each, and its loop ends
\* exactly with fetch number ceil(N / 50), so it issues ceil(N / 50) fetches
\* and no more.
C14_FetchesAscendingAndBounded ==
    \A i \in DOMAIN bulks :
        LET op     == bulks[i]
            length == Len(fetchData(op.page, itemsPerPage).data)
            after  == BulkTake(op)
        IN  /\ op.fetched = [k \in 1..op.page |-> k - 1]
            /\ op.page < FetchesFor(op.num)
            /\ op.itemsSelected = Min(op.num, itemsPerPage * op.page)
            /\ op.picked = FirstRecords(op.itemsSelected)
            /\ after.itemsSelected - op.itemsSelected
                   = Min(op.num - op.itemsSelected, length)
            /\ after.fetched = [k \in 1..(op.page + 1) |-> k - 1]
            /\ LoopEnds(after, length) <=> Len(after.fetched) = FetchesFor(op.num)

\* the second and last fetch of a bulk-select of 75 is in flight
C14_Witness ==
    \E i \in DOMAIN bulks :
        /\ bulks[i].num = 75
        /\ bulks[i].fetched = <<0>>
        /\ bulks[i].itemsSelected = 50
        /\ remoteTotal = 128
        /\ LoopEnds(BulkTake(bulks[i]), 50)

\* C15: when a bulk-select completes, isAllSelected says whether every
\* identifier of the page displayed at that moment is in the updated
\* selection set, also when the page was changed while it was in flight.
C15_BulkDoneFlagMatchesDisplayedPage ==
    event.kind = "selectDone" => (isAllSelected <=> Every(artworks, selectedIds))

\* C16: when a page load completes with a non-empty page, isAllSelected says
\* whether every identifier of the new page is in the selection set as it is
\* at that moment, also when the selection changed while the load was in
\* flight.
C16_LoadDoneFlagMatchesSelection ==
    (event.kind = "loadDone" /\ artworks # <<>>) =>
        (isAllSelected <=> Every(artworks, selectedIds))

\* C17: whenever a page load or bulk-select has a fetch in flight, the
\* loading flag is true.
C17_LoadingWhileInFlight ==
    InFlight > 0 => loading

\* what the remote collection holds at 0-indexed page `page` of size `rows`
PageOfCollection(page, rows) ==
    [i \in 1..Max(0, Min(rows, remoteTotal - page * rows)) |->
        RecordId(page * rows + i - 1)]

\* C18: once a load has succeeded (the held total is positive, or the
\* collection is empty), the displayed records are the collection's page
\* currentPage at size pageSize.
C18_DisplayedPageConsistent ==
    (totalRecords > 0 \/ remoteTotal = 0) =>
        artworks = PageOfCollection(currentPage, pageSize)

\* a load was applied while another load was still in flight
C18_Witness ==
    /\ event.kind = "loadDone"
    /\ Len(loads) > 0
    /\ currentPage = 1
    /\ artworks # <<>>

\* C19: once every page load has got its response and the one requested last
\* has succeeded, the displayed page and size are those requested last.
C19_LastRequestedPageDisplayed ==
    (loads = <<>> /\ requested.status = "ok") =>
        (currentPage = requested.page /\ pageSize = requested.rows)

\* C20: once no operation is in flight the loading flag is false, and if
\* every fetch gets its response every operation in flight finishes.
C20_LoadingEnds ==
    /\ [](InFlight = 0 => ~loading)
    /\ (InFlight > 0) ~> (InFlight = 0 /\ ~loading)

\* a bulk-select ended by a failed fetch, with nothing left in flight
C20_Witness ==
    /\ event.kind = "selectFail"
    /\ InFlight = 0
    /\ ~loading

====
